---- MODULE Spec2Model ----
(***************************************************************************)
(* Model of src/src/cleaning.py: fill_missing_median, drop_missing and     *)
(* normalize_data over a pandas DataFrame.                                 *)
(*                                                                         *)
(* Tables live in an object store (heap): the caller's DataFrame is the    *)
(* object "df", df.copy() allocates the object "copy", and the frame that  *)
(* DataFrame.dropna returns is the object "dropna".  Column assignment     *)
(* (out[c] = ...) writes into the object the name `out` is bound to.       *)
(*                                                                         *)
(* Floating-point numbers are modelled as exact reals of the form          *)
(* (n/d)*sqrt(m), which is closed under every computation the module       *)
(* performs on the modelled inputs (mean, population std, z-score,         *)
(* min-max scaling, median).                                               *)
(***************************************************************************)
EXTENDS Integers, Sequences, FiniteSets, TLC

\* ---------------------------------------------------------------- bounds
\* the longest frame the caller passes
MaxRows == 3

\* ---------------------------------------------------------------- Optional[...]
None == <<>>
Some(v) == <<v>>
IsNone(o) == Len(o) = 0
Value(o) == o[1]

\* ---------------------------------------------------------------- numbers
\* A cell is <<kind, n, d, m>>: kind "num" is the real (n/d)*sqrt(m) with
\* d > 0, gcd(n, d) = 1, m squarefree; kind "nan" is the missing marker
\* (NaN / None); kind "str" is a non-numeric, non-missing object (a string).
NaN == <<"nan", 0, 1, 1>>
Str == <<"str", 0, 1, 1>>
Zero == <<"num", 0, 1, 1>>

isna(v) == v[1] = "nan"
notna(v) == v[1] # "nan"
IsNum(v) == v[1] = "num"

Abs(i) == IF i < 0 THEN -i ELSE i

RECURSIVE GCD(_, _)
GCD(a, b) == IF b = 0 THEN a ELSE GCD(b, a % b)

\* the largest s with s*s dividing k (k >= 1)
SquarePart(k) == CHOOSE s \in 1..k : k % (s * s) = 0 /\ \A t \in (s + 1)..k : k % (t * t) # 0

\* (n/d)*sqrt(m) in normal form; d # 0, m >= 1
Real(n, d, m) ==
    IF n = 0 THEN Zero
    ELSE LET s == SquarePart(m)
             sn == IF d < 0 THEN -(n * s) ELSE n * s
             sd == Abs(d)
             g == GCD(Abs(sn), sd)
         IN  <<"num", sn \div g, sd \div g, m \div (s * s)>>

Whole(i) == Real(i, 1, 1)

\* IEEE arithmetic on the modelled values: NaN propagates.  A sum of two
\* nonzero values is representable only when their radicands agree; the
\* CASE has no other arm, so a computation leaving the modelled number
\* system stops the model checker instead of going unnoticed.
Add(a, b) ==
    CASE isna(a) \/ isna(b) -> NaN
      [] notna(a) /\ notna(b) /\ a = Zero -> b
      [] notna(a) /\ notna(b) /\ a # Zero /\ b = Zero -> a
      [] notna(a) /\ notna(b) /\ a # Zero /\ b # Zero /\ a[4] = b[4] ->
            Real(a[2] * b[3] + b[2] * a[3], a[3] * b[3], a[4])

Neg(a) == IF isna(a) THEN NaN ELSE <<"num", -a[2], a[3], a[4]>>

Sub(a, b) == Add(a, Neg(b))

Mul(a, b) == IF isna(a) \/ isna(b) THEN NaN ELSE Real(a[2] * b[2], a[3] * b[3], a[4] * b[4])

\* a / b for b # 0:  (an/ad)sqrt(am) / ((bn/bd)sqrt(bm)) = (an*bd)/(ad*bn*bm) * sqrt(am*bm)
Div(a, b) ==
    IF isna(a) \/ isna(b) THEN NaN
    ELSE Real(a[2] * b[3], a[3] * b[2] * b[4], a[4] * b[4])

\* square root of a rational a >= 0:  sqrt(n/d) = sqrt(n*d)/d
Sqrt(a) == IF isna(a) THEN NaN ELSE IF a = Zero THEN Zero ELSE Real(1, a[3], a[2] * a[3])

Sign(a) == IF a[2] > 0 THEN 1 ELSE IF a[2] < 0 THEN -1 ELSE 0

\* a < b on non-missing values, by sign and by the (rational) squares
SqLess(a, b) == a[2] * a[2] * a[4] * b[3] * b[3] < b[2] * b[2] * b[4] * a[3] * a[3]
Less(a, b) ==
    IF Sign(a) # Sign(b) THEN Sign(a) < Sign(b)
    ELSE IF Sign(a) > 0 THEN SqLess(a, b)
    ELSE IF Sign(a) < 0 THEN SqLess(b, a)
    ELSE FALSE

\* ---------------------------------------------------------------- Series
\* A Series is a sequence of cells.
RECURSIVE Sum(_)
Sum(xs) == IF xs = <<>> THEN Zero ELSE Add(Head(xs), Sum(Tail(xs)))

dropna_values(xs) == SelectSeq(xs, notna)

\* Series.mean(): skips missing values; NaN when none is left
mean(xs) ==
    LET v == dropna_values(xs)
    IN  IF v = <<>> THEN NaN ELSE Div(Sum(v), Whole(Len(v)))

\* Series.std(ddof=0): population standard deviation, missing values skipped
std(xs) ==
    LET v == dropna_values(xs)
        avg == mean(xs)
        sq == [i \in 1..Len(v) |-> Mul(Sub(avg, v[i]), Sub(avg, v[i]))]
    IN  IF v = <<>> THEN NaN ELSE Sqrt(Div(Sum(sq), Whole(Len(v))))

RECURSIVE min(_)
min(xs) ==
    LET v == dropna_values(xs)
    IN  IF v = <<>> THEN NaN
        ELSE IF Len(v) = 1 THEN v[1]
        ELSE LET r == min(Tail(v)) IN IF Less(r, v[1]) THEN r ELSE v[1]

RECURSIVE max(_)
max(xs) ==
    LET v == dropna_values(xs)
    IN  IF v = <<>> THEN NaN
        ELSE IF Len(v) = 1 THEN v[1]
        ELSE LET r == max(Tail(v)) IN IF Less(v[1], r) THEN r ELSE v[1]

RECURSIVE Insert(_, _)
Insert(x, sorted) ==
    IF sorted = <<>> THEN <<x>>
    ELSE IF Less(Head(sorted), x) THEN <<Head(sorted)>> \o Insert(x, Tail(sorted))
    ELSE <<x>> \o sorted

RECURSIVE Sort(_)
Sort(xs) == IF xs = <<>> THEN <<>> ELSE Insert(Head(xs), Sort(Tail(xs)))

\* (mutant) a median that takes the upper middle value of an even count
median_upper_middle(xs) ==
    LET v == Sort(dropna_values(xs))
    IN  IF v = <<>> THEN NaN ELSE v[Len(v) \div 2 + 1]

\* Series.median(): middle of the sorted non-missing values, the mean of the
\* two middle ones for an even count, NaN when there is none
median(xs) ==
    LET v == Sort(dropna_values(xs))
        n == Len(v)
    IN  IF n = 0 THEN NaN
        ELSE IF n % 2 = 1 THEN v[(n + 1) \div 2]
        ELSE Div(Add(v[n \div 2], v[n \div 2 + 1]), Whole(2))

\* Series.fillna(value): a NaN value fills nothing
fillna(xs, value) == [i \in 1..Len(xs) |-> IF isna(xs[i]) /\ notna(value) THEN value ELSE xs[i]]

\* ---------------------------------------------------------------- DataFrame
\* The frame's columns in their native order, and the numeric dtypes among them.
\* A DataFrame is a function from column name to Series, all of one length.
Columns == <<"x", "s">>
NumericDtype == {"x"}

Range(f) == {f[i] : i \in DOMAIN f}
ColumnNames == Range(Columns)
len(t) == Len(t[Columns[1]])

\* ---------------------------------------------------------------- object store
\* params = {}: no fitted parameters
NoParams == [c \in {} |-> Zero]

Store(h, ref, t) == [r \in DOMAIN h \cup {ref} |-> IF r = ref THEN t ELSE h[r]]

\* (mutant) a copy that is only another name for the same object
copy_alias(h, ref) == [heap |-> h, ref |-> ref]

\* df.copy(): a new object holding the same cells
copy(h, ref) == [heap |-> Store(h, "copy", h[ref]), ref |-> "copy"]

\* out[c] = xs: writes column c of the object `ref`
setitem(h, ref, c, xs) == [h EXCEPT ![ref] = [@ EXCEPT ![c] = xs]]

\* ---------------------------------------------------------------- _coerce_columns
select_dtypes_number == SelectSeq(Columns, LAMBDA c : c \in NumericDtype)

coerce_columns(columns) ==
    IF IsNone(columns) THEN select_dtypes_number
    ELSE SelectSeq(Value(columns), LAMBDA c : c \in ColumnNames)

HasDuplicates(cols) == \E i, j \in DOMAIN cols : i # j /\ cols[i] = cols[j]

\* ---------------------------------------------------------------- fill_missing_median
\* out[cols].median(numeric_only=True): one median per numeric column of cols
medians_of(t, cols) == [c \in Range(cols) \cap NumericDtype |-> median(t[c])]

\* out[cols] = out[cols].fillna(medians), one column of cols at a time
RECURSIVE fill_columns(_, _, _, _)
fill_columns(h, ref, cols, medians) ==
    IF cols = <<>> THEN h
    ELSE LET c == Head(cols)
             xs == h[ref][c]
             filled == IF c \in DOMAIN medians THEN fillna(xs, medians[c]) ELSE xs
         IN  fill_columns(setitem(h, ref, c, filled), ref, Tail(cols), medians)

RepeatedLabelError == "ValueError: columns must be same length as key"

\* lines 49-50 on the copy `out`.  With a name repeated in cols the assignment
\* out[cols] = ... addresses one column through two labels, which the library
\* may refuse (refused): both outcomes are modelled.
fill_copy(out, cols, refused) ==
    IF refused
    THEN [heap |-> out.heap, table |-> "none", params |-> NoParams, error |-> RepeatedLabelError]
    ELSE [heap |-> fill_columns(out.heap, out.ref, cols, medians_of(out.heap[out.ref], cols)),
          table |-> out.ref, params |-> NoParams, error |-> ""]

fill_missing_median_body(h, columns, refused) ==
    fill_copy(copy(h, "df"), coerce_columns(columns), refused)

\* ---------------------------------------------------------------- DataFrame.dropna
\* Two generations of the library interface.  "none_default" (pandas < 1.5):
\* how="any", thresh=None are the defaults and thresh=None means "not given".
\* "no_default" (pandas >= 1.5): the defaults are a private sentinel, and a call
\* that passes both how and thresh -- None included -- raises TypeError.
DropnaApis == {"none_default", "no_default"}

\* number of non-missing cells of row i among the columns agg (with repeats)
count(t, agg, i) == Cardinality({k \in DOMAIN agg : notna(t[agg[k]][i])})

\* the cells of a Series at the row positions in keep, in their order
RECURSIVE keep_rows(_, _, _)
keep_rows(xs, keep, i) ==
    IF i > Len(xs) THEN <<>>
    ELSE (IF i \in keep THEN <<xs[i]>> ELSE <<>>) \o keep_rows(xs, keep, i + 1)

rows_of(t, keep) == [c \in DOMAIN t |-> keep_rows(t[c], keep, 1)]

\* (mutant) a dropna that takes every how other than "any" for "all"
dropna_unchecked_how(t, how, thresh, subset, api) ==
    LET agg == IF IsNone(subset) THEN Columns ELSE Value(subset)
        rows == 1..len(t)
        mask == IF ~IsNone(thresh) THEN {i \in rows : count(t, agg, i) >= Value(thresh)}
                ELSE IF how = "any" THEN {i \in rows : count(t, agg, i) = Len(agg)}
                ELSE {i \in rows : count(t, agg, i) > 0}
    IN  IF api = "no_default" /\ how \in {"any", "all"}
        THEN [error |-> "TypeError: how and thresh", table |-> t]
        ELSE IF \E k \in DOMAIN agg : agg[k] \notin ColumnNames THEN [error |-> "KeyError", table |-> t]
        ELSE [error |-> "", table |-> rows_of(t, mask)]

dropna(t, how, thresh, subset, api) ==
    LET agg == IF IsNone(subset) THEN Columns ELSE Value(subset)
        missing == {k \in DOMAIN agg : agg[k] \notin ColumnNames}
        rows == 1..len(t)
        mask == IF ~IsNone(thresh) THEN {i \in rows : count(t, agg, i) >= Value(thresh)}
                ELSE IF how = "any" THEN {i \in rows : count(t, agg, i) = Len(agg)}
                ELSE {i \in rows : count(t, agg, i) > 0}
    IN  IF api = "no_default" THEN [error |-> "TypeError: how and thresh", table |-> t]
        ELSE IF missing # {} THEN [error |-> "KeyError", table |-> t]
        ELSE IF IsNone(thresh) /\ how \notin {"any", "all"}
             THEN [error |-> "ValueError: invalid how option", table |-> t]
        ELSE [error |-> "", table |-> rows_of(t, mask)]

\* line 84 on the copy `out`: out is rebound to the frame dropna returns
drop_copy(out, res) ==
    IF res.error # ""
    THEN [heap |-> out.heap, table |-> "none", params |-> NoParams, error |-> res.error]
    ELSE [heap |-> Store(out.heap, "dropna", res.table), table |-> "dropna",
          params |-> NoParams, error |-> ""]

drop_after_copy(out, how, thresh, subset, api) ==
    drop_copy(out, dropna(out.heap[out.ref], how, thresh, subset, api))

drop_missing_body(h, how, thresh, subset, api) ==
    drop_after_copy(copy(h, "df"), how, thresh, subset, api)

\* ---------------------------------------------------------------- normalize_data
Methods == {"standard", "minmax"}
SetParam(params, c, entry) == [k \in DOMAIN params \cup {c} |-> IF k = c THEN entry ELSE params[k]]

\* Series.astype(float) fails on a string, and maps None to NaN
astype_float_raises(xs) == \E i \in DOMAIN xs : xs[i][1] = "str"

\* (mutant) min-max scaling that divides by the maximum instead of the range
normalize_column_by_max(h, ref, params, c, method) ==
    LET x == h[ref][c]
        zeros == [i \in DOMAIN x |-> Zero]
        mn == min(x)
        mx == max(x)
    IN  IF method = "standard"
        THEN [heap |-> setitem(h, ref, c,
                         IF std(x) = Zero THEN zeros
                         ELSE [i \in DOMAIN x |-> Div(Sub(x[i], mean(x)), std(x))]),
              params |-> SetParam(params, c, [method |-> "standard", mean |-> mean(x), std |-> std(x)])]
        ELSE [heap |-> setitem(h, ref, c,
                         IF Sub(mx, mn) = Zero THEN zeros
                         ELSE [i \in DOMAIN x |-> Div(Sub(x[i], mn), mx)]),
              params |-> SetParam(params, c, [method |-> "minmax", min |-> mn, max |-> mx])]

\* the body of `for c in cols` for one column
normalize_column(h, ref, params, c, method) ==
    LET x == h[ref][c]
        zeros == [i \in DOMAIN x |-> Zero]
        mean_ == mean(x)
        std_ == std(x)
        mn == min(x)
        mx == max(x)
        rng == Sub(mx, mn)
    IN  IF method = "standard"
        THEN [heap |-> setitem(h, ref, c,
                         IF std_ = Zero THEN zeros
                         ELSE [i \in DOMAIN x |-> Div(Sub(x[i], mean_), std_)]),
              params |-> SetParam(params, c, [method |-> "standard", mean |-> mean_, std |-> std_])]
        ELSE [heap |-> setitem(h, ref, c,
                         IF rng = Zero THEN zeros
                         ELSE [i \in DOMAIN x |-> Div(Sub(x[i], mn), rng)]),
              params |-> SetParam(params, c, [method |-> "minmax", min |-> mn, max |-> mx])]

AstypeError == "ValueError: could not convert string to float"
MethodError == "ValueError: method must be one of {standard, minmax}"

\* for c in cols (lines 122-143), on the object `ref`
RECURSIVE normalize_loop(_, _, _, _, _)
normalize_rest(step, ref, cols, method) ==
    normalize_loop(step.heap, ref, step.params, Tail(cols), method)

normalize_loop(h, ref, params, cols, method) ==
    IF cols = <<>> THEN [heap |-> h, params |-> params, error |-> ""]
    ELSE IF astype_float_raises(h[ref][Head(cols)])
         THEN [heap |-> h, params |-> params, error |-> AstypeError]
    ELSE normalize_rest(normalize_column(h, ref, params, Head(cols), method), ref, cols, method)

\* (mutant) the method is validated inside the loop, once a column is at hand
normalize_checked_in_loop(out, cols, method, run) ==
    IF method \notin Methods /\ cols # <<>>
    THEN [heap |-> out.heap, table |-> "none", params |-> NoParams, error |-> MethodError]
    ELSE IF run.error # ""
    THEN [heap |-> run.heap, table |-> "none", params |-> NoParams, error |-> run.error]
    ELSE [heap |-> run.heap, table |-> out.ref, params |-> run.params, error |-> ""]

\* lines 119-146: the method check, then the outcome `run` of the loop
normalize_checked(out, cols, method, run) ==
    IF method \notin Methods
    THEN [heap |-> out.heap, table |-> "none", params |-> NoParams, error |-> MethodError]
    ELSE IF run.error # ""
    THEN [heap |-> run.heap, table |-> "none", params |-> NoParams, error |-> run.error]
    ELSE [heap |-> run.heap, table |-> out.ref, params |-> run.params, error |-> ""]

normalize_copy(out, cols, method) ==
    normalize_checked(out, cols, method, normalize_loop(out.heap, out.ref, NoParams, cols, method))

normalize_data_body(h, columns, method) ==
    normalize_copy(copy(h, "df"), coerce_columns(columns), method)

\* ---------------------------------------------------------------- inputs
NumericCells == {NaN, Whole(1), Whole(3)}
ObjectCells == {NaN, Str}
CellsOf(c) == IF c \in NumericDtype THEN NumericCells ELSE ObjectCells

FramesOfLen(n) ==
    {t \in [ColumnNames -> [1..n -> NumericCells \cup ObjectCells]] :
        \A c \in ColumnNames : \A i \in 1..n : t[c][i] \in CellsOf(c)}
Frames == UNION {FramesOfLen(n) : n \in 0..MaxRows}

\* A columns / subset argument: absent, or a list of names over the frame's
\* columns and one foreign name, as long as the frame is wide, so that it can
\* be empty, repeat a name, reorder, and mix existing with foreign names.
RequestNames == ColumnNames \cup {"zz"}
Requested == UNION {[1..n -> RequestNames] : n \in 0..Len(Columns)}
ColumnsArgs == {None} \cup {Some(r) : r \in Requested}
MethodArgs == Methods \cup {"robust"}
HowArgs == {"any", "all", "first"}
ThreshArgs == {None} \cup {Some(k) : k \in 0..Len(Columns)}

\* ---------------------------------------------------------------- state
VARIABLES heap, snapshot, pandas_api, pc, call, result
vars == <<heap, snapshot, pandas_api, pc, call, result>>

NoCall == [fn |-> "", columns |-> None, method |-> "standard",
           how |-> "any", thresh |-> None, subset |-> None]
NoResult == [table |-> "none", params |-> NoParams, error |-> ""]

Init ==
    /\ \E t \in Frames : heap = [r \in {"df"} |-> t] /\ snapshot = t
    /\ pandas_api \in DropnaApis
    /\ pc = "idle"
    /\ call = NoCall
    /\ result = NoResult

\* what a call leaves behind: the objects, and the table returned or the error
Outcome(r) ==
    /\ heap' = r.heap
    /\ result' = [table |-> r.table, params |-> r.params, error |-> r.error]
    /\ pc' = (IF r.error # "" THEN "raised" ELSE "returned")
    /\ snapshot' = heap["df"]
    /\ UNCHANGED pandas_api

\* fill_missing_median(df, columns)
fill_missing_median(columns, refused) ==
    /\ pc = "idle"
    /\ refused => HasDuplicates(coerce_columns(columns))
    /\ Outcome(fill_missing_median_body(heap, columns, refused))
    /\ call' = [NoCall EXCEPT !.fn = "fill_missing_median", !.columns = columns]

\* drop_missing(df, how, thresh, subset)
drop_missing(how, thresh, subset) ==
    /\ pc = "idle"
    /\ Outcome(drop_missing_body(heap, how, thresh, subset, pandas_api))
    /\ call' = [NoCall EXCEPT !.fn = "drop_missing", !.how = how, !.thresh = thresh,
                              !.subset = subset]

\* normalize_data(df, columns, method)
normalize_data(columns, method) ==
    /\ pc = "idle"
    /\ Outcome(normalize_data_body(heap, columns, method))
    /\ call' = [NoCall EXCEPT !.fn = "normalize_data", !.columns = columns, !.method = method]

\* The call is over: the caller keeps its DataFrame and may call again.
Return ==
    /\ pc # "idle"
    /\ pc' = "idle"
    /\ heap' = [r \in {"df"} |-> heap["df"]]
    /\ snapshot' = heap["df"]
    /\ call' = NoCall
    /\ result' = NoResult
    /\ UNCHANGED pandas_api

Next ==
    \/ \E columns \in ColumnsArgs, refused \in BOOLEAN : fill_missing_median(columns, refused)
    \/ \E how \in HowArgs, thresh \in ThreshArgs, subset \in ColumnsArgs :
          drop_missing(how, thresh, subset)
    \/ \E columns \in ColumnsArgs, method \in MethodArgs : normalize_data(columns, method)
    \/ Return

Spec == Init /\ [][Next]_vars

\* ================================================================ claims
\* Vocabulary of the claims, written from their wording and not from the code.
Input == snapshot
Returned == pc = "returned"
Raised == pc = "raised"
Output == heap[result.table]
Rows(t) == 1..len(t)

\* the names of a columns / subset argument that are columns of the frame
Existing(names) == SelectSeq(names, LAMBDA c : c \in ColumnNames)
\* the effective column set of fill_missing_median / normalize_data
Effective(columns) == IF IsNone(columns) THEN NumericDtype ELSE Range(Existing(Value(columns)))
Repeats(names) == \E i, j \in DOMAIN names : i < j /\ names[i] = names[j]

NumbersOf(xs) == {xs[i] : i \in {k \in DOMAIN xs : IsNum(xs[k])}}
LessEq(a, b) == a = b \/ Less(a, b)
Smallest(xs) == CHOOSE v \in NumbersOf(xs) : \A w \in NumbersOf(xs) : LessEq(v, w)
Largest(xs) == CHOOSE v \in NumbersOf(xs) : \A w \in NumbersOf(xs) : LessEq(w, v)
\* the median by rank: the mean of the lower and the upper middle value
AtMost(xs, v) == Cardinality({i \in DOMAIN xs : IsNum(xs[i]) /\ LessEq(xs[i], v)})
AtLeast(xs, v) == Cardinality({i \in DOMAIN xs : IsNum(xs[i]) /\ LessEq(v, xs[i])})
HowMany(xs) == Cardinality({i \in DOMAIN xs : IsNum(xs[i])})
LowerMiddle(xs) ==
    CHOOSE v \in NumbersOf(xs) : 2 * AtMost(xs, v) >= HowMany(xs) /\ 2 * AtLeast(xs, v) > HowMany(xs)
UpperMiddle(xs) ==
    CHOOSE v \in NumbersOf(xs) : 2 * AtMost(xs, v) > HowMany(xs) /\ 2 * AtLeast(xs, v) >= HowMany(xs)
MedianOf(xs) == Div(Add(LowerMiddle(xs), UpperMiddle(xs)), Whole(2))

\* ---------------------------------------------------------------- C1
\* C1: whatever the function, the arguments and the outcome (a return or an
\* error), the caller's table holds after the call exactly the cells it held
\* before it.
C1_InputNeverMutated == heap["df"] = snapshot

\* a call that returned a table differing from the input, whose writes
\* therefore went somewhere
C1_Witness ==
    /\ Returned
    /\ call.fn = "normalize_data"
    /\ Output # Input
    /\ heap["df"] = Input

\* ---------------------------------------------------------------- C2
\* the completeness rule of the claim for row i of t
Considered(subset) == IF IsNone(subset) THEN Columns ELSE Value(subset)
Present(t, i, subset) ==
    Cardinality({k \in DOMAIN Considered(subset) : notna(t[Considered(subset)[k]][i])})
Complete(t, i, how, thresh, subset) ==
    IF ~IsNone(thresh) THEN Present(t, i, subset) >= Value(thresh)
    ELSE IF how = "any" THEN \A k \in DOMAIN Considered(subset) : notna(t[Considered(subset)[k]][i])
    ELSE \E k \in DOMAIN Considered(subset) : notna(t[Considered(subset)[k]][i])

\* out holds exactly the cells of xs at the positions keep, in their order
NthOf(keep, j) == CHOOSE i \in keep : Cardinality({k \in keep : k <= i}) = j
IsSubsequenceAt(out, xs, keep) ==
    /\ Len(out) = Cardinality(keep)
    /\ \A j \in 1..Len(out) : out[j] = xs[NthOf(keep, j)]

DropRuleApplies ==
    /\ call.fn = "drop_missing"
    /\ \A k \in DOMAIN Considered(call.subset) : Considered(call.subset)[k] \in ColumnNames
    /\ ~IsNone(call.thresh) \/ call.how \in {"any", "all"}

DropRuleHolds ==
    /\ Returned
    /\ len(Output) <= len(Input)
    /\ \A c \in ColumnNames :
          IsSubsequenceAt(Output[c], Input[c],
              {i \in Rows(Input) : Complete(Input, i, call.how, call.thresh, call.subset)})

\* C2: drop_missing returns exactly the rows that satisfy the completeness
\* rule over the considered columns, in their original order: with thresh, the
\* rows with at least thresh non-missing considered cells; without it, for
\* "any" the rows with no missing considered cell and for "all" the rows with
\* a non-missing considered cell.  (Stated for subsets of existing columns.)
C2_DropMissingReturnsCompleteRows == DropRuleApplies => DropRuleHolds

\* The same statement for the library interface whose defaults are None:
\* there the rule is the one the claim gives.
C2_RuleUnderNoneDefaults == (DropRuleApplies /\ pandas_api = "none_default") => DropRuleHolds

C2_RuleUnderNoneDefaults_Witness ==
    /\ DropRuleApplies
    /\ pandas_api = "none_default"
    /\ Returned
    /\ len(Output) = 1
    /\ len(Input) = 3
    /\ call.how = "all"
    /\ IsNone(call.thresh)

\* ---------------------------------------------------------------- C3
\* C3: fill_missing_median returns a table in which every missing cell of a
\* resolved column that has a non-missing numeric value holds that column's
\* median over the input, and every other cell is the input's.  (The call
\* returns unless the resolved list names a column twice.)
C3_FillMissingMedian ==
    call.fn = "fill_missing_median" =>
        /\ Raised => (~IsNone(call.columns) /\ Repeats(Existing(Value(call.columns))))
        /\ Returned =>
              /\ len(Output) = len(Input)
              /\ \A c \in ColumnNames : \A i \in Rows(Input) :
                    Output[c][i] =
                        IF c \in Effective(call.columns) /\ NumbersOf(Input[c]) # {} /\ isna(Input[c][i])
                        THEN MedianOf(Input[c])
                        ELSE Input[c][i]

\* a missing cell filled with the mean of the two middle values, 2 = (1 + 3) / 2,
\* while a requested non-numeric column keeps its missing cell
C3_Witness ==
    /\ call.fn = "fill_missing_median"
    /\ Returned
    /\ ~IsNone(call.columns)
    /\ \E i \in Rows(Input) :
          /\ isna(Input["x"][i]) /\ Output["x"][i] = Whole(2)
          /\ isna(Input["s"][i]) /\ isna(Output["s"][i])
    /\ "s" \in Effective(call.columns)

\* ---------------------------------------------------------------- C5
InUnitInterval(v) == LessEq(Zero, v) /\ LessEq(v, Whole(1))
HasRange(xs) == NumbersOf(xs) # {} /\ Less(Smallest(xs), Largest(xs))

\* C5: under "minmax", in every processed column whose input values have a
\* nonzero range each non-missing value x becomes (x - min) / (max - min),
\* which lies in [0, 1], is 0 at the minimum and 1 at the maximum; the columns
\* that are not processed are returned unchanged.
C5_MinMaxScaling ==
    (call.fn = "normalize_data" /\ call.method = "minmax" /\ Returned) =>
        \A c \in ColumnNames :
            IF c \in Effective(call.columns)
            THEN HasRange(Input[c]) =>
                    \A i \in Rows(Input) : IsNum(Input[c][i]) =>
                        /\ Output[c][i] = Div(Sub(Input[c][i], Smallest(Input[c])),
                                              Sub(Largest(Input[c]), Smallest(Input[c])))
                        /\ InUnitInterval(Output[c][i])
                        /\ Input[c][i] = Smallest(Input[c]) => Output[c][i] = Zero
                        /\ Input[c][i] = Largest(Input[c]) => Output[c][i] = Whole(1)
            ELSE Output[c] = Input[c]

\* a column with a range, scaled to 0 and 1, next to a column passed through
C5_Witness ==
    /\ call.fn = "normalize_data"
    /\ call.method = "minmax"
    /\ Returned
    /\ HasRange(Input["x"])
    /\ "x" \in Effective(call.columns)
    /\ \E i, j \in Rows(Input) : Output["x"][i] = Zero /\ Output["x"][j] = Whole(1)
    /\ "s" \notin Effective(call.columns)
    /\ \E i \in Rows(Input) : Output["s"][i] = Str

\* ---------------------------------------------------------------- C4
Lowest(xs) == IF NumbersOf(xs) = {} THEN NaN ELSE Smallest(xs)
Highest(xs) == IF NumbersOf(xs) = {} THEN NaN ELSE Largest(xs)
FitOfInput(c) ==
    IF call.method = "minmax"
    THEN [method |-> "minmax", min |-> Lowest(Input[c]), max |-> Highest(Input[c])]
    ELSE [method |-> "standard", mean |-> mean(Input[c]), std |-> std(Input[c])]
ParamsDescribeInput ==
    /\ DOMAIN result.params = Effective(call.columns)
    /\ \A c \in Effective(call.columns) : result.params[c] = FitOfInput(c)

\* C4: whenever normalize_data returns, fit_params has one entry per processed
\* column, holding the statistics of that column of the input table (for
\* "minmax" its smallest and largest non-missing value), whatever the order
\* and the repetitions of the requested names.
C4_FitParamsDescribeInput == (call.fn = "normalize_data" /\ Returned) => ParamsDescribeInput

\* The same statement for requests that name no column twice.
C4_FitParamsWithoutRepeats ==
    (call.fn = "normalize_data" /\ Returned
        /\ (IsNone(call.columns) \/ ~Repeats(Value(call.columns)))) => ParamsDescribeInput

C4_FitParamsWithoutRepeats_Witness ==
    /\ call.fn = "normalize_data"
    /\ Returned
    /\ call.columns = Some(<<"zz", "x">>)
    /\ result.params["x"] = [method |-> "minmax", min |-> Whole(1), max |-> Whole(3)]

\* ---------------------------------------------------------------- C6
AllEqual(xs) == Len(xs) > 0 /\ \A i \in DOMAIN xs : IsNum(xs[i]) /\ xs[i] = xs[1]
DegenerateFit(c) ==
    IF call.method = "minmax"
    THEN [method |-> "minmax", min |-> Input[c][1], max |-> Input[c][1]]
    ELSE [method |-> "standard", mean |-> Input[c][1], std |-> Zero]
DegenerateColumnsZeroed ==
    /\ (\A c \in Effective(call.columns) : AllEqual(Input[c])) => Returned
    /\ Returned =>
          \A c \in Effective(call.columns) : AllEqual(Input[c]) =>
              /\ \A i \in Rows(Input) : Output[c][i] = Zero
              /\ c \in DOMAIN result.params
              /\ result.params[c] = DegenerateFit(c)

\* C6: under both methods a processed column whose values are all equal comes
\* back all zero without the call failing, and its fit_params entry records
\* the common value as mean with std 0, or as both min and max.
C6_DegenerateColumn ==
    (call.fn = "normalize_data" /\ call.method \in Methods) => DegenerateColumnsZeroed

\* The same statement for requests that name no column twice.
C6_DegenerateWithoutRepeats ==
    (call.fn = "normalize_data" /\ call.method \in Methods
        /\ (IsNone(call.columns) \/ ~Repeats(Value(call.columns)))) => DegenerateColumnsZeroed

C6_DegenerateWithoutRepeats_Witness ==
    /\ call.fn = "normalize_data"
    /\ call.method = "standard"
    /\ Returned
    /\ Input["x"] = <<Whole(3), Whole(3)>>
    /\ Output["x"] = <<Zero, Zero>>
    /\ result.params["x"] = [method |-> "standard", mean |-> Whole(3), std |-> Zero]

\* ---------------------------------------------------------------- C7
\* C7: with a method other than "standard" and "minmax", normalize_data fails
\* with the invalid-method error whatever the table and the columns, the
\* resolved set being empty or not, before any column is transformed: nothing
\* is returned, and neither the input nor the working copy has changed.
C7_UnknownMethodFails ==
    (call.fn = "normalize_data" /\ call.method \notin Methods) =>
        /\ Raised
        /\ result.error = MethodError
        /\ result.table = "none"
        /\ result.params = NoParams
        /\ heap["df"] = Input
        /\ heap["copy"] = Input

\* an unknown method with an empty resolved column set, on a non-empty table
C7_Witness ==
    /\ call.fn = "normalize_data"
    /\ call.method = "robust"
    /\ Effective(call.columns) = {}
    /\ len(Input) > 0
    /\ Raised
    /\ result.error = MethodError

\* ---------------------------------------------------------------- C8
Foreign(names) == \E k \in DOMAIN names : names[k] \notin ColumnNames
OnInput == [r \in {"df"} |-> Input]
SameTable(r) == r.error = "" /\ Output = r.heap[r.table]
SameOutcome(r) ==
    /\ result.error = r.error
    /\ result.params = r.params
    /\ Returned => Output = r.heap[r.table]

FillAsIfExisting ==
    /\ Raised => Repeats(Existing(Value(call.columns)))
    /\ Returned => SameTable(fill_missing_median_body(OnInput, Some(Existing(Value(call.columns))), FALSE))
NormalizeAsIfExisting ==
    SameOutcome(normalize_data_body(OnInput, Some(Existing(Value(call.columns))), call.method))
DropAsIfExisting ==
    SameOutcome(drop_missing_body(OnInput, call.how, call.thresh,
                                  Some(Existing(Value(call.subset))), pandas_api))

\* C8: in all three functions a requested name that is no column of the table
\* is dropped without an error: the call does what it does for the existing
\* requested names alone, in the requested order.
C8_ForeignNamesDropped ==
    /\ (call.fn = "fill_missing_median" /\ ~IsNone(call.columns) /\ Foreign(Value(call.columns)))
          => FillAsIfExisting
    /\ (call.fn = "normalize_data" /\ ~IsNone(call.columns) /\ Foreign(Value(call.columns)))
          => NormalizeAsIfExisting
    /\ (call.fn = "drop_missing" /\ ~IsNone(call.subset) /\ Foreign(Value(call.subset)))
          => DropAsIfExisting

\* The same statement for the two functions that resolve their columns.
C8_ForeignNamesDroppedByCoerce ==
    /\ (call.fn = "fill_missing_median" /\ ~IsNone(call.columns) /\ Foreign(Value(call.columns)))
          => FillAsIfExisting
    /\ (call.fn = "normalize_data" /\ ~IsNone(call.columns) /\ Foreign(Value(call.columns)))
          => NormalizeAsIfExisting

\* ---------------------------------------------------------------- C9
\* C9: with an empty effective column set the call is a no-op that does not
\* raise: fill_missing_median returns the input, normalize_data with a valid
\* method returns the input and an empty fit_params, and drop_missing returns
\* every input row for how "any" and for how "all".
C9_EmptyColumnSetIsNoOp ==
    /\ (call.fn = "fill_missing_median" /\ Effective(call.columns) = {})
          => (Returned /\ Output = Input)
    /\ (call.fn = "normalize_data" /\ call.method \in Methods /\ Effective(call.columns) = {})
          => (Returned /\ Output = Input /\ result.params = NoParams)
    /\ (call.fn = "drop_missing" /\ ~IsNone(call.subset) /\ Existing(Value(call.subset)) = <<>>
           /\ call.how \in {"any", "all"} /\ IsNone(call.thresh))
          => (Returned /\ Output = Input)

\* The same statement for the two functions that resolve their columns.
C9_EmptyColumnSetNoOpByCoerce ==
    /\ (call.fn = "fill_missing_median" /\ Effective(call.columns) = {})
          => (Returned /\ Output = Input)
    /\ (call.fn = "normalize_data" /\ call.method \in Methods /\ Effective(call.columns) = {})
          => (Returned /\ Output = Input /\ result.params = NoParams)

\* ---------------------------------------------------------------- C10
DropFailed == Raised /\ result.table = "none" /\ heap["df"] = Input

\* C10 as claimed: drop_missing with a how other than "any" and "all" fails,
\* thresh given or not, returning no table and leaving the input untouched.
C10_UnknownHowFails == (call.fn = "drop_missing" /\ call.how \notin {"any", "all"}) => DropFailed

\* C10 as amended: drop_missing with a how other than "any" and "all" and with
\* thresh absent fails, returning no table and leaving the input untouched.
\* The error is dropna's: "invalid how option" where None is the default of
\* thresh (a KeyError coming first when subset names a missing column), and the
\* refusal of how together with thresh where it is not.
C10_UnknownHowFailsWithoutThresh ==
    (call.fn = "drop_missing" /\ call.how \notin {"any", "all"} /\ IsNone(call.thresh)) =>
        /\ DropFailed
        /\ result.error =
              IF pandas_api = "no_default" THEN "TypeError: how and thresh"
              ELSE IF ~IsNone(call.subset) /\ Foreign(Value(call.subset)) THEN "KeyError"
              ELSE "ValueError: invalid how option"

C10_Witness ==
    /\ call.fn = "drop_missing"
    /\ call.how = "first"
    /\ IsNone(call.thresh)
    /\ call.subset = Some(<<"x">>)
    /\ len(Input) > 0
    /\ Raised
    /\ result.error = "ValueError: invalid how option"

====
